---- MODULE Spec2Model ----
(***************************************************************************)
(* Recoup: statutory late-payment interest (python-backend/services/       *)
(* collections.py, utils/base_rate_history.py), the escalation decision    *)
(* engine and its endpoint (python-services/decision_engine/escalation.py, *)
(* main.py), the payment predictor and collection scheduler                *)
(* (ai_collection_system.py), the webhook idempotency handler              *)
(* (idempotency_py.py), the AI call cooldown (python-services/             *)
(* ai_voice_agent) and the rate limiter (python-backend/                   *)
(* rate_limiter_py.py).                                                    *)
(*                                                                         *)
(* Units.  Money is held in pence (the float amount times 100), so 999.99  *)
(* is 99999.  Rates are held in hundredths of a percent (basis points), so *)
(* 5.25 is 525 and the statutory 8.0 is 800.  A date is a record           *)
(* [year, month, day] ordered as datetime.date orders it.                  *)
(***************************************************************************)
EXTENDS Integers, Sequences, FiniteSets, TLC

VARIABLES params, today, rate_info, result,
          esc_params, recommendation, esc_calls, request_assets,
          invoice, user_tier, model, prediction, strategy,
          acted_today, action, emitted, task_error,
          claim, fee_response,
          projection_args, projections,
          check_date, update_info,
          idem_store, idem_pc, idem_outcome, handler_runs,
          call_now, call_pc, invoice_call_history, calls_placed, call_response,
          usage, limit_pc, limit_response

vars == <<params, today, rate_info, result,
          esc_params, recommendation, esc_calls, request_assets,
          invoice, user_tier, model, prediction, strategy,
          acted_today, action, emitted, task_error,
          claim, fee_response,
          projection_args, projections,
          check_date, update_info,
          idem_store, idem_pc, idem_outcome, handler_runs,
          call_now, call_pc, invoice_call_history, calls_placed, call_response,
          usage, limit_pc, limit_response>>
interestVars == <<params, today, rate_info, result>>
\* esc_params: the EscalationParams of the last call; recommendation: what
\* that call returned; esc_calls: the calls made so far; request_assets: the
\* debtor_has_assets string of the HTTP request the last call served, None
\* when generate_escalation_recommendation was called directly
escalationVars == <<esc_params, recommendation, esc_calls, request_assets>>
\* invoice, user_tier: the overdue invoice and its owner's tier; model: the
\* PaymentPredictor's self.model; prediction: what the last
\* predict_payment_probability returned and by which return statement;
\* strategy: the last strategy dict; acted_today: whether the key
\* collection_action:<invoice>:<today> exists in redis; action: the value
\* last bound to the name action; emitted: the arguments of the
\* execute_collection_action tasks handed over today for the invoice;
\* task_error: the exception that ended the last scheduler run
collectionVars == <<invoice, user_tier, model, prediction, strategy,
                    acted_today, action, emitted, task_error>>
\* claim, fee_response: the claim_amount requested and the answer of
\* POST /calculate-court-fee
feeVars == <<claim, fee_response>>
\* projection_args, projections: the arguments and the returned list of
\* project_interest_accrual
projectionVars == <<projection_args, projections>>
\* check_date, update_info: date.today() and the dict returned by
\* check_base_rate_update_due
updateVars == <<check_date, update_info>>
\* idem_store: the redis value under idempotency:<provider>:<event_id>;
\* idem_pc, idem_outcome: where each concurrent handle_webhook call stands
\* and how it ended; handler_runs: executions of the wrapped handler since
\* the key last came to be stored
idempotencyVars == <<idem_store, idem_pc, idem_outcome, handler_runs>>
\* call_now: the clock in hours; call_pc, call_response: where each
\* /initiate-call request for the invoice stands and its answer;
\* invoice_call_history: CallManager.invoice_call_history[invoice_id];
\* calls_placed: the times at which Twilio placed a call for the invoice
callVars == <<call_now, call_pc, invoice_call_history, calls_placed, call_response>>
\* usage: the redis counters of one user and action, one per window;
\* limit_pc, limit_response: where each concurrent request stands and the
\* answer of its check_limit
limiterVars == <<usage, limit_pc, limit_response>>
\* the components above taken together
serviceVars == <<collectionVars, feeVars, projectionVars, updateVars,
                 idempotencyVars, callVars, limiterVars>>

(***************************************************************************)
(* Bounds of the explored inputs                                           *)
(***************************************************************************)
MaxDueYear == 2026
MaxClockYear == 2025
MaxEscalationCalls == 2
MaxSchedulerRuns == 2
MaxProjectionDays == 2
MaxCheckYear == 2026
NumCallers == 2
NumCallRequests == 3
MaxCallHours == 26
NumLimitRequests == 3

None == "None"

\* an Optional[...] argument: <<>> is None, <<v>> is the value v
Absent == <<>>
Some(v) == <<v>>

(***************************************************************************)
(* datetime.date                                                           *)
(***************************************************************************)
Date(y, m, d) == [year |-> y, month |-> m, day |-> d]

DateLT(a, b) ==
    \/ a.year < b.year
    \/ a.year = b.year /\ a.month < b.month
    \/ a.year = b.year /\ a.month = b.month /\ a.day < b.day

DateLE(a, b) == a = b \/ DateLT(a, b)

IsLeap(y) == y % 4 = 0 /\ (y % 100 # 0 \/ y % 400 = 0)

DaysInMonth(y, m) ==
    IF m = 2 THEN (IF IsLeap(y) THEN 29 ELSE 28)
    ELSE IF m \in {4, 6, 9, 11} THEN 30 ELSE 31

RECURSIVE DaysBeforeMonth(_, _)
DaysBeforeMonth(y, m) ==
    IF m = 1 THEN 0 ELSE DaysBeforeMonth(y, m - 1) + DaysInMonth(y, m - 1)

DaysBeforeYear(y) ==
    (y - 1) * 365 + ((y - 1) \div 4) - ((y - 1) \div 100) + ((y - 1) \div 400)

ToOrdinal(dt) == DaysBeforeYear(dt.year) + DaysBeforeMonth(dt.year, dt.month) + dt.day

\* mutant: the operands of the subtraction are swapped
DaysBetween_Swapped(a, b) == ToOrdinal(b) - ToOrdinal(a)

\* (a - b).days
DaysBetween(a, b) == ToOrdinal(a) - ToOrdinal(b)

(***************************************************************************)
(* utils/base_rate_history.py                                              *)
(***************************************************************************)
BaseRateEntry(ef, r, ref) == [effective_from |-> ef, rate |-> r, reference_date |-> ref]

\* the list literal, in the order it is written
BASE_RATE_HISTORY_LITERAL ==
    << BaseRateEntry(Date(2025, 7, 1), 525, Date(2025, 6, 30)),
       BaseRateEntry(Date(2025, 1, 1), 500, Date(2024, 12, 31)),
       BaseRateEntry(Date(2024, 7, 1), 525, Date(2024, 6, 30)),
       BaseRateEntry(Date(2024, 1, 1), 525, Date(2023, 12, 31)),
       BaseRateEntry(Date(2023, 7, 1), 500, Date(2023, 6, 30)),
       BaseRateEntry(Date(2023, 1, 1), 350, Date(2022, 12, 31)),
       BaseRateEntry(Date(2022, 7, 1), 125, Date(2022, 6, 30)),
       BaseRateEntry(Date(2022, 1, 1), 25, Date(2021, 12, 31)),
       BaseRateEntry(Date(2021, 7, 1), 10, Date(2021, 6, 30)),
       BaseRateEntry(Date(2021, 1, 1), 10, Date(2020, 12, 31)),
       BaseRateEntry(Date(2020, 7, 1), 10, Date(2020, 6, 30)),
       BaseRateEntry(Date(2020, 1, 1), 75, Date(2019, 12, 31)) >>

\* list.sort(key=effective_from, reverse=True): stable insertion, newest first
RECURSIVE InsertDesc(_, _)
InsertDesc(e, s) ==
    IF s = <<>> THEN <<e>>
    ELSE IF DateLT(Head(s).effective_from, e.effective_from) THEN <<e>> \o s
    ELSE <<Head(s)>> \o InsertDesc(e, Tail(s))

RECURSIVE SortDesc(_)
SortDesc(s) ==
    IF s = <<>> THEN <<>>
    ELSE InsertDesc(s[Len(s)], SortDesc(SubSeq(s, 1, Len(s) - 1)))

BASE_RATE_HISTORY == SortDesc(BASE_RATE_HISTORY_LITERAL)

\* mutant: July is taken for the first half of the year
TargetReferenceDate_JulyExcluded(due_date) ==
    IF due_date.month > 7
    THEN Date(due_date.year, 6, 30)
    ELSE Date(due_date.year - 1, 12, 31)

\* 30 June of the due year (July-December) or 31 December of the year before
TargetReferenceDate(due_date) ==
    IF due_date.month >= 7
    THEN Date(due_date.year, 6, 30)
    ELSE Date(due_date.year - 1, 12, 31)

\* next(entry for entry in BASE_RATE_HISTORY if entry.reference_date <= ref),
\* as the index of that entry, 0 when there is none
FirstEntryNotAfter(reference_date) ==
    LET hits == {i \in 1..Len(BASE_RATE_HISTORY) :
                    DateLE(BASE_RATE_HISTORY[i].reference_date, reference_date)}
    IN IF hits = {} THEN 0 ELSE CHOOSE i \in hits : \A j \in hits : i <= j

\* mutant: the fallback takes the newest entry, BASE_RATE_HISTORY[0]
get_base_rate_for_due_date_FallbackNewest(due_date) ==
    LET reference_date == TargetReferenceDate(due_date)
        idx == FirstEntryNotAfter(reference_date)
        rate_entry == IF idx = 0 THEN BASE_RATE_HISTORY[1] ELSE BASE_RATE_HISTORY[idx]
    IN [rate |-> rate_entry.rate,
        reference_date |-> rate_entry.reference_date,
        effective_from |-> rate_entry.effective_from,
        warned |-> (idx = 0)]

get_base_rate_for_due_date(due_date) ==
    LET reference_date == TargetReferenceDate(due_date)
        idx == FirstEntryNotAfter(reference_date)
        oldest_rate == BASE_RATE_HISTORY[Len(BASE_RATE_HISTORY)]
        rate_entry == IF idx = 0 THEN oldest_rate ELSE BASE_RATE_HISTORY[idx]
    IN [rate |-> rate_entry.rate,
        reference_date |-> rate_entry.reference_date,
        effective_from |-> rate_entry.effective_from,
        warned |-> (idx = 0)]

get_current_base_rate == BASE_RATE_HISTORY[1].rate

\* the local rate_info of calculate_late_payment_interest before it is bound
NoRateInfo ==
    [rate |-> 0, reference_date |-> Date(0, 0, 0), effective_from |-> Date(0, 0, 0),
     warned |-> FALSE]

(***************************************************************************)
(* services/collections.py                                                 *)
(***************************************************************************)
STATUTORY_INTEREST_RATE == 800

FIXED_RECOVERY_COSTS ==
    [TIER_1 |-> [max |-> 99999, fee |-> 40],
     TIER_2 |-> [max |-> 999999, fee |-> 70],
     TIER_3 |-> [fee |-> 100]]

\* mutant: the band limits are exclusive
get_fixed_recovery_cost_Exclusive(principal_amount) ==
    IF principal_amount < FIXED_RECOVERY_COSTS.TIER_1.max
    THEN FIXED_RECOVERY_COSTS.TIER_1.fee
    ELSE IF principal_amount < FIXED_RECOVERY_COSTS.TIER_2.max
    THEN FIXED_RECOVERY_COSTS.TIER_2.fee
    ELSE FIXED_RECOVERY_COSTS.TIER_3.fee

\* returned in whole pounds
get_fixed_recovery_cost(principal_amount) ==
    IF principal_amount <= FIXED_RECOVERY_COSTS.TIER_1.max
    THEN FIXED_RECOVERY_COSTS.TIER_1.fee
    ELSE IF principal_amount <= FIXED_RECOVERY_COSTS.TIER_2.max
    THEN FIXED_RECOVERY_COSTS.TIER_2.fee
    ELSE FIXED_RECOVERY_COSTS.TIER_3.fee

\* pence * basis points * days per pence of interest: 100 * 100 * 365
InterestDenominator == 3650000

\* params.current_date or date.today()
EffectiveCurrentDate(p, clock) ==
    IF p.current_date = Absent THEN clock ELSE p.current_date[1]

\* mutant: a principal of zero passes the first guard
ValidationError_AcceptsZero(principal_amount, due_date, current_date) ==
    IF principal_amount < 0 THEN "Principal amount must be greater than 0"
    ELSE IF DateLT(current_date, due_date) THEN "Due date cannot be in the future"
    ELSE None

\* the two guards that raise ValueError, in the order the code tests them
ValidationError(principal_amount, due_date, current_date) ==
    IF principal_amount <= 0 THEN "Principal amount must be greater than 0"
    ELSE IF DateLT(current_date, due_date) THEN "Due date cannot be in the future"
    ELSE None

ResolveBankBaseRate(p) ==
    IF p.custom_base_rate # Absent THEN p.custom_base_rate[1]
    ELSE IF p.use_historical_rate THEN get_base_rate_for_due_date(p.due_date).rate
    ELSE get_current_base_rate

\* daily_interest = principal * (interest_rate / 100) / 365, as the exact
\* fraction DailyNumerator / InterestDenominator of a penny
DailyNumerator(principal_amount, interest_rate) == principal_amount * interest_rate

\* mutant: the daily interest is returned without the multiplication by days
AccruedExact_IgnoresDays(principal_amount, interest_rate, days_overdue) ==
    LET n == DailyNumerator(principal_amount, interest_rate)
    IN [whole |-> n \div InterestDenominator, rem |-> n % InterestDenominator]

\* interest_accrued = daily_interest * days_overdue, as whole pence and the
\* remaining numerator over InterestDenominator.  The product is taken in two
\* halves of days_overdue so that no intermediate value leaves 32 bits.
AccruedExact(principal_amount, interest_rate, days_overdue) ==
    LET n == DailyNumerator(principal_amount, interest_rate)
        q == n \div InterestDenominator
        a == n % InterestDenominator
        dh == days_overdue \div 64
        dl == days_overdue % 64
        q1 == (a * 64) \div InterestDenominator
        r1 == (a * 64) % InterestDenominator
        rest == r1 * dh + a * dl
    IN [whole |-> q * days_overdue + q1 * dh + (rest \div InterestDenominator),
        rem |-> rest % InterestDenominator]

\* round(x, 2) of the value whole + rem / InterestDenominator pence.  Off a
\* tie the nearest penny; on an exact decimal tie the float that holds the
\* value lies just above or just below it, so either neighbour can be returned.
Round2(whole, rem) ==
    IF 2 * rem < InterestDenominator THEN {whole}
    ELSE IF 2 * rem > InterestDenominator THEN {whole + 1}
    ELSE {whole, whole + 1}

\* mutant: the fixed recovery cost is left out of the total
TotalExact_WithoutFee(principal_amount, accrued, fixed_recovery_cost) ==
    [whole |-> principal_amount + accrued.whole, rem |-> accrued.rem]

\* total_owed = principal_amount + interest_accrued + fixed_recovery_cost,
\* before rounding
TotalExact(principal_amount, accrued, fixed_recovery_cost) ==
    [whole |-> principal_amount + accrued.whole + fixed_recovery_cost * 100,
     rem |-> accrued.rem]

NoResult ==
    [status |-> "none", error |-> None, principal_amount |-> 0, interest_rate |-> 0,
     bank_base_rate |-> 0, statutory_rate |-> 0, days_overdue |-> 0,
     interest_accrued |-> 0, fixed_recovery_cost |-> 0, total_owed |-> 0,
     daily_interest |-> 0]

Raised(msg) == [NoResult EXCEPT !.status = "error", !.error = msg]

\* the set of values calculate_late_payment_interest can produce for p
InterestOutcomes(p, clock) ==
    LET principal_amount == p.principal_amount
        due_date == p.due_date
        current_date == EffectiveCurrentDate(p, clock)
        err == ValidationError(principal_amount, due_date, current_date)
        days_overdue == DaysBetween(current_date, due_date)
        bank_base_rate == ResolveBankBaseRate(p)
        interest_rate == STATUTORY_INTEREST_RATE + bank_base_rate
        daily == AccruedExact(principal_amount, interest_rate, 1)
        accrued == AccruedExact(principal_amount, interest_rate, days_overdue)
        fixed_recovery_cost == get_fixed_recovery_cost(principal_amount)
        total == TotalExact(principal_amount, accrued, fixed_recovery_cost)
    IN IF err # None THEN {Raised(err)}
       ELSE {[status |-> "ok", error |-> None,
              principal_amount |-> principal_amount,
              interest_rate |-> interest_rate,
              bank_base_rate |-> bank_base_rate,
              statutory_rate |-> STATUTORY_INTEREST_RATE,
              days_overdue |-> days_overdue,
              interest_accrued |-> ia,
              fixed_recovery_cost |-> fixed_recovery_cost,
              total_owed |-> tot,
              daily_interest |-> di] :
                ia \in Round2(accrued.whole, accrued.rem),
                tot \in Round2(total.whole, total.rem),
                di \in Round2(daily.whole, daily.rem)}

(***************************************************************************)
(* Inputs of the interest calculator                                       *)
(***************************************************************************)
Principals == {-100, 0, 1, 250, 73000, 99999, 100000, 999999, 1000000}

DueDates ==
    {Date(y, md[1], md[2]) : y \in 2019..MaxDueYear,
                             md \in {<<1, 1>>, <<6, 15>>, <<7, 1>>, <<12, 15>>}}
    \cup {Date(2024, 8, 15), Date(2024, 3, 1)}

CurrentDates ==
    {Date(y, md[1], md[2]) : y \in (MaxClockYear - 1)..MaxClockYear,
                             md \in {<<1, 1>>, <<3, 15>>, <<7, 1>>, <<9, 16>>}}

Clock == <<Date(MaxClockYear, 3, 15), Date(MaxClockYear, 6, 23), Date(MaxClockYear + 1, 1, 1)>>

RateOptions ==
    {[custom_base_rate |-> Absent, use_historical_rate |-> TRUE],
     [custom_base_rate |-> Absent, use_historical_rate |-> FALSE],
     [custom_base_rate |-> Some(525), use_historical_rate |-> TRUE]}

InitInterest ==
    /\ \E pa \in Principals, dd \in DueDates, cd \in {Some(d) : d \in CurrentDates} \cup {Absent},
          ro \in RateOptions :
          params = [principal_amount |-> pa, due_date |-> dd, current_date |-> cd,
                    custom_base_rate |-> ro.custom_base_rate,
                    use_historical_rate |-> ro.use_historical_rate]
    /\ today = Clock[1]
    /\ rate_info = NoRateInfo
    /\ result = NoResult

\* the system clock moves on to a later day
Tick ==
    /\ \E i \in 1..(Len(Clock) - 1) : today = Clock[i] /\ today' = Clock[i + 1]
    /\ UNCHANGED <<params, rate_info, result, escalationVars, serviceVars>>

\* whether this call reaches rate_info = get_base_rate_for_due_date(due_date)
LooksUpHistoricalRate(p, clock) ==
    /\ ValidationError(p.principal_amount, p.due_date, EffectiveCurrentDate(p, clock)) = None
    /\ p.custom_base_rate = Absent
    /\ p.use_historical_rate

calculate_late_payment_interest ==
    /\ result' \in InterestOutcomes(params, today)
    /\ rate_info' = IF LooksUpHistoricalRate(params, today)
                    THEN get_base_rate_for_due_date(params.due_date)
                    ELSE NoRateInfo
    /\ UNCHANGED <<params, today, escalationVars, serviceVars>>

(***************************************************************************)
(* decision_engine/escalation.py                                           *)
(*                                                                         *)
(* Amounts are in pence; the court fee is in hundredths of a penny so that *)
(* 5% of any amount is exact.  debtor_has_assets is a Python object: the   *)
(* booleans and None are written "True", "False", "None", and a str value  *)
(* is written with its quotes ("'true'").                                  *)
(***************************************************************************)
PyTrue == "True"
PyFalse == "False"

Options == <<"court", "agency", "write_off", "continue_internal">>

Pounds(n) == n * 100

\* mutant: claim_amount * 0.05 above 10000, without the min
calculate_court_fee_Uncapped(claim_amount) ==
    IF claim_amount <= Pounds(300) THEN Pounds(35) * 100
    ELSE IF claim_amount <= Pounds(500) THEN Pounds(50) * 100
    ELSE IF claim_amount <= Pounds(1000) THEN Pounds(70) * 100
    ELSE IF claim_amount <= Pounds(1500) THEN Pounds(80) * 100
    ELSE IF claim_amount <= Pounds(3000) THEN Pounds(115) * 100
    ELSE IF claim_amount <= Pounds(5000) THEN Pounds(205) * 100
    ELSE IF claim_amount <= Pounds(10000) THEN Pounds(455) * 100
    ELSE claim_amount * 5

calculate_court_fee(claim_amount) ==
    IF claim_amount <= Pounds(300) THEN Pounds(35) * 100
    ELSE IF claim_amount <= Pounds(500) THEN Pounds(50) * 100
    ELSE IF claim_amount <= Pounds(1000) THEN Pounds(70) * 100
    ELSE IF claim_amount <= Pounds(1500) THEN Pounds(80) * 100
    ELSE IF claim_amount <= Pounds(3000) THEN Pounds(115) * 100
    ELSE IF claim_amount <= Pounds(5000) THEN Pounds(205) * 100
    ELSE IF claim_amount <= Pounds(10000) THEN Pounds(455) * 100
    ELSE LET fee == claim_amount * 5
         IN IF fee < Pounds(10000) * 100 THEN fee ELSE Pounds(10000) * 100

\* one factor's contribution: the deltas to the four scores, the reasoning
\* entries and the warnings it appends, and whether evaluating it raises
Delta(c, a, w, i, reasoning, warnings) ==
    [court |-> c, agency |-> a, write_off |-> w, continue_internal |-> i,
     reasoning |-> reasoning, warnings |-> warnings, raises |-> None]

\* FACTOR 1: invoice amount.  The warning of the lowest band formats
\* court_fee / invoice_amount * 100, a float division.
Factor1(p) ==
    IF p.invoice_amount < Pounds(500)
    THEN [Delta(0, 0, 30, 20, <<"low_amount">>, <<"court_fee_share">>)
            EXCEPT !.raises = IF p.invoice_amount = 0 THEN "ZeroDivisionError" ELSE None]
    ELSE IF p.invoice_amount < Pounds(1500)
    THEN Delta(20, 10, 0, 0, <<"medium_amount">>, <<>>)
    ELSE IF p.invoice_amount < Pounds(5000)
    THEN Delta(30, 20, 0, 0, <<"good_amount">>, <<>>)
    ELSE Delta(25, 35, 0, 0, <<"high_value">>, <<>>)

\* FACTOR 2: days overdue
Factor2(p) ==
    IF p.days_overdue < 30 THEN Delta(0, 0, 0, 40, <<"recently_overdue">>, <<>>)
    ELSE IF p.days_overdue < 60 THEN Delta(20, 10, 0, 20, <<"moderately_overdue">>, <<>>)
    ELSE IF p.days_overdue < 90 THEN Delta(30, 30, 0, 0, <<"significantly_overdue">>, <<>>)
    ELSE Delta(40, 35, 10, 0, <<"severely_overdue">>, <<>>)

\* FACTOR 3: debt clarity
Factor3(p) ==
    IF p.is_disputed_debt
    THEN Delta(40, -20, 10, 0, <<"disputed">>, <<"disputed_agency_success">>)
    ELSE Delta(20, 25, 0, 0, <<"clear_debt">>, <<>>)

\* FACTOR 4: debtor type
Factor4(p) ==
    IF p.debtor_type = "business" THEN Delta(30, 0, 0, 0, <<"business_debtor">>, <<>>)
    ELSE IF p.debtor_type = "individual" THEN Delta(0, 25, 0, 0, <<"individual_debtor">>, <<>>)
    ELSE Delta(10, 10, 0, 0, <<>>, <<>>)

\* FACTOR 5: previous collection attempts
Factor5(p) ==
    IF p.previous_attempts < 3 THEN Delta(0, 0, 0, 30, <<"few_attempts">>, <<>>)
    ELSE IF p.previous_attempts < 6 THEN Delta(20, 20, 0, 0, <<"multiple_attempts">>, <<>>)
    ELSE Delta(30, 30, 0, 0, <<"many_attempts">>, <<>>)

\* FACTOR 6: relationship value
Factor6(p) ==
    IF p.relationship_value = "high" THEN Delta(-15, 25, 0, 0, <<"high_relationship">>, <<>>)
    ELSE IF p.relationship_value = "medium" THEN Delta(10, 10, 0, 0, <<>>, <<>>)
    ELSE Delta(20, 0, 0, 0, <<"low_relationship">>, <<>>)

\* FACTOR 7: evidence strength
Factor7(p) ==
    LET contract == IF p.has_written_contract THEN <<"written_contract">> ELSE <<>>
        delivery == IF p.has_proof_of_delivery THEN <<"proof_of_delivery">> ELSE <<>>
        evidence_score == Len(contract) + Len(delivery)
    IN IF evidence_score >= 2
       THEN Delta(30, 0, 0, 0, contract \o delivery \o <<"strong_evidence">>, <<>>)
       ELSE IF evidence_score = 1
       THEN Delta(15, 10, 0, 0, contract \o delivery, <<>>)
       ELSE Delta(-10, 20, 0, 0, <<>>, <<"weak_evidence">>)

\* FACTOR 8: debtor asset status, tested with "is True" and "is False"
Factor8(p) ==
    IF p.debtor_has_assets = PyTrue THEN Delta(25, 0, 0, 0, <<"has_assets">>, <<>>)
    ELSE IF p.debtor_has_assets = PyFalse THEN Delta(0, 10, 20, 0, <<>>, <<"no_assets">>)
    ELSE Delta(0, 0, 0, 0, <<>>, <<>>)

Factors(p) ==
    <<Factor1(p), Factor2(p), Factor3(p), Factor4(p),
      Factor5(p), Factor6(p), Factor7(p), Factor8(p)>>

RECURSIVE SumField(_, _, _)
SumField(fs, opt, n) ==
    IF n = 0 THEN 0 ELSE SumField(fs, opt, n - 1) + fs[n][opt]

RECURSIVE Concat(_, _, _)
Concat(fs, fld, n) ==
    IF n = 0 THEN <<>> ELSE Concat(fs, fld, n - 1) \o fs[n][fld]

\* mutant: a module-level scores dict that keeps the previous call's totals
InitialScores_Carried == recommendation.scores

\* the scores dict a call starts from
InitialScores == [opt \in {Options[k] : k \in 1..Len(Options)} |-> 0]

\* the scores dict after the eight factors
FinalScores(p) ==
    LET fs == Factors(p)
    IN [opt \in {Options[k] : k \in 1..Len(Options)} |->
           InitialScores[opt] + SumField(fs, opt, Len(fs))]

\* mutant: min(scores, key=scores.get)
MaxKey_Min(scores) ==
    LET best == CHOOSE k \in 1..Len(Options) :
                    /\ \A j \in 1..Len(Options) : scores[Options[j]] >= scores[Options[k]]
                    /\ \A j \in 1..(k - 1) : scores[Options[j]] > scores[Options[k]]
    IN Options[best]

\* mutant: max(scores) without key=, the greatest key by name
MaxKey_NoKey(scores) == "write_off"

\* mutant: among the keys that hold the greatest value, the last one
MaxKey_LastTie(scores) ==
    LET best == CHOOSE k \in 1..Len(Options) :
                    /\ \A j \in 1..Len(Options) : scores[Options[j]] <= scores[Options[k]]
                    /\ \A j \in (k + 1)..Len(Options) : scores[Options[j]] < scores[Options[k]]
    IN Options[best]

\* max(scores, key=scores.get): the first key, in insertion order, that
\* holds the greatest value
MaxKey(scores) ==
    LET best == CHOOSE k \in 1..Len(Options) :
                    /\ \A j \in 1..Len(Options) : scores[Options[j]] <= scores[Options[k]]
                    /\ \A j \in 1..(k - 1) : scores[Options[j]] < scores[Options[k]]
    IN Options[best]

Min(a, b) == IF a < b THEN a ELSE b
Max(a, b) == IF a > b THEN a ELSE b

\* mutant: max(50, score), the cap at 95 left out
Confidence_NoCap(score) == Max(50, score)

Confidence(score) == Min(95, Max(50, score))

\* the script chosen by the if / elif chain over primary_option
NextStepsFor(primary_option) ==
    IF primary_option = "court" THEN "court_steps"
    ELSE IF primary_option = "agency" THEN "agency_steps"
    ELSE IF primary_option = "continue_internal" THEN "internal_steps"
    ELSE "write_off_steps"

NoRecommendation ==
    [status |-> "none", error |-> None, primary_option |-> None, confidence |-> 0,
     scores |-> [opt \in {Options[k] : k \in 1..Len(Options)} |-> 0],
     reasoning |-> <<>>, warnings |-> <<>>, county_court_fee |-> 0,
     next_steps |-> None, court_success |-> None, agency_success |-> None]

EscalationResult(p) ==
    LET fs == Factors(p)
        scores == FinalScores(p)
        primary_option == MaxKey(scores)
    IN IF \E n \in 1..Len(fs) : fs[n].raises # None
       THEN [NoRecommendation EXCEPT
               !.status = "error",
               !.error = fs[CHOOSE n \in 1..Len(fs) : fs[n].raises # None].raises]
       ELSE [status |-> "ok", error |-> None,
             primary_option |-> primary_option,
             confidence |-> Confidence(scores[primary_option]),
             scores |-> scores,
             reasoning |-> Concat(fs, "reasoning", Len(fs)),
             warnings |-> Concat(fs, "warnings", Len(fs)),
             county_court_fee |-> calculate_court_fee(p.invoice_amount),
             next_steps |-> NextStepsFor(primary_option),
             court_success |-> IF p.is_disputed_debt THEN "40-50%" ELSE "66-75%",
             agency_success |-> IF p.is_disputed_debt THEN "30-40%" ELSE "50-60%"]

(***************************************************************************)
(* Inputs of the escalation engine                                         *)
(***************************************************************************)
InvoiceAmounts == {0, 49999, 50000, 150000, 300000, 500000}
DaysOverdueValues == {29, 30, 60, 90, 95}
AttemptValues == {2, 3, 6, 7}
DebtorTypes == {"business", "individual", "unknown", "charity"}
RelationshipValues == {"low", "medium", "high"}
AssetValues == {PyTrue, PyFalse, None, "'true'"}

DefaultEscalationParams ==
    [invoice_amount |-> 0, days_overdue |-> 0, is_disputed_debt |-> FALSE,
     debtor_type |-> "unknown", previous_attempts |-> 0,
     relationship_value |-> "medium", has_written_contract |-> FALSE,
     has_proof_of_delivery |-> FALSE, debtor_has_assets |-> None]

InitEscalation ==
    /\ \E amt \in InvoiceAmounts, d \in DaysOverdueValues, disp \in BOOLEAN,
          dt \in DebtorTypes, att \in AttemptValues, rel \in RelationshipValues,
          wc \in BOOLEAN, pod \in BOOLEAN, assets \in AssetValues :
          esc_params = [invoice_amount |-> amt, days_overdue |-> d,
                        is_disputed_debt |-> disp, debtor_type |-> dt,
                        previous_attempts |-> att, relationship_value |-> rel,
                        has_written_contract |-> wc, has_proof_of_delivery |-> pod,
                        debtor_has_assets |-> assets]
    /\ recommendation = NoRecommendation
    /\ esc_calls = 0
    /\ request_assets = None

\* a direct call with the parameters at hand
generate_escalation_recommendation ==
    /\ esc_calls < MaxEscalationCalls
    /\ esc_calls' = esc_calls + 1
    /\ recommendation' = EscalationResult(esc_params)
    /\ request_assets' = None
    /\ UNCHANGED <<esc_params, interestVars, serviceVars>>

\* EscalationRequest.debtor_has_assets is a str, 'true', 'false' or 'unknown'
RequestAssetValues == {"true", "false", "unknown"}

\* debtor_has_assets=request.debtor_has_assets == "true"
RequestToParams(request, assets) ==
    [request EXCEPT !.debtor_has_assets = IF assets = "true" THEN PyTrue ELSE PyFalse]

\* POST /recommend-escalation: the request carries the fields at hand and
\* its own debtor_has_assets string; an exception becomes an HTTP 500
recommend_escalation ==
    /\ esc_calls < MaxEscalationCalls
    /\ esc_calls' = esc_calls + 1
    /\ \E assets \in RequestAssetValues :
          /\ request_assets' = assets
          /\ esc_params' = RequestToParams(esc_params, assets)
          /\ recommendation' =
                LET r == EscalationResult(RequestToParams(esc_params, assets))
                IN IF r.status = "error"
                   THEN [r EXCEPT !.error = "HTTPException(500)"]
                   ELSE r
    /\ UNCHANGED <<interestVars, serviceVars>>

(***************************************************************************)
(* ai_collection_system.py: the payment predictor and the collection       *)
(* scheduler.  A probability is held in hundredths, so 0.7 is 70; an       *)
(* estimated cost is held in hundredths of a penny.                        *)
(***************************************************************************)
\* bool(v) of an Optional[str]
Truthy(v) == v \notin {None, ""}

\* mutant: the score returned without max(0.1, min(0.9, score))
rule_based_prediction_Unclamped(inv) ==
    LET s1 == IF inv.days_overdue < 15 THEN 50 + 20
              ELSE IF inv.days_overdue < 30 THEN 50 + 10
              ELSE IF inv.days_overdue > 60 THEN 50 - 30
              ELSE 50
        s2 == IF inv.amount < 10000 THEN s1 + 10
              ELSE IF inv.amount > 100000 THEN s1 - 10
              ELSE s1
    IN IF Truthy(inv.dispute_status) THEN s2 - 20 ELSE s2

rule_based_prediction(inv) ==
    LET s1 == IF inv.days_overdue < 15 THEN 50 + 20
              ELSE IF inv.days_overdue < 30 THEN 50 + 10
              ELSE IF inv.days_overdue > 60 THEN 50 - 30
              ELSE 50
        s2 == IF inv.amount < 10000 THEN s1 + 10
              ELSE IF inv.amount > 100000 THEN s1 - 10
              ELSE s1
        s3 == IF Truthy(inv.dispute_status) THEN s2 - 20 ELSE s2
    IN Max(10, Min(90, s3))

\* self.model after load_or_train_model: a fitted classifier, or None when
\* training raised
TrainOutcomes == {None, "RandomForestClassifier"}

\* what predict_proba([features])[0][1] of a fitted model can be
ModelProbabilities == {0, 25, 100}

\* mutant: with no model, the neutral 0.5 instead of the rule-based value
PredictOutcomes_NeutralWithoutModel(inv, m) ==
    IF m = None
    THEN {[value |-> 50, path |-> "no_model"]}
    ELSE {[value |-> p, path |-> "model"] : p \in ModelProbabilities}
         \cup {[value |-> rule_based_prediction(inv), path |-> "prediction_failed"]}

\* predict_payment_probability: the value returned and the return statement
\* reached; with a model, extract_features or predict_proba may raise
PredictOutcomes(inv, m) ==
    IF m = None
    THEN {[value |-> rule_based_prediction(inv), path |-> "no_model"]}
    ELSE {[value |-> p, path |-> "model"] : p \in ModelProbabilities}
         \cup {[value |-> rule_based_prediction(inv), path |-> "prediction_failed"]}

estimate_collection_cost(inv) ==
    LET base_cost == 50000
        email == 1000
        sms == 2000
        ai_call == 25000
        letter == 15000
        agency == inv.amount * 25
    IN IF inv.days_overdue < 30 THEN base_cost + email * 3 + sms * 2
       ELSE IF inv.days_overdue < 60
            THEN base_cost + email * 5 + sms * 3 + ai_call * 2
       ELSE base_cost + email * 5 + sms * 3 + ai_call * 3 + letter + agency

\* mutant: the bands closed at their lower end (>= for >)
Band_Inclusive(p) ==
    IF p >= 70 THEN [recommended_action |-> "gentle_reminder", urgency |-> "low"]
    ELSE IF p >= 40 THEN [recommended_action |-> "standard_escalation", urgency |-> "medium"]
    ELSE IF p >= 20 THEN [recommended_action |-> "immediate_escalation", urgency |-> "high"]
    ELSE [recommended_action |-> "evaluate_writeoff", urgency |-> "critical"]

\* the if / elif chain over payment_prob
Band(p) ==
    IF p > 70 THEN [recommended_action |-> "gentle_reminder", urgency |-> "low"]
    ELSE IF p > 40 THEN [recommended_action |-> "standard_escalation", urgency |-> "medium"]
    ELSE IF p > 20 THEN [recommended_action |-> "immediate_escalation", urgency |-> "high"]
    ELSE [recommended_action |-> "evaluate_writeoff", urgency |-> "critical"]

NoStrategy ==
    [status |-> "none", payment_probability |-> 0, recommended_action |-> None,
     urgency |-> None, estimated_recovery |-> 0, cost_benefit |-> None,
     recommendation |-> None]

\* the strategy dict built for the probability p; estimated_recovery is
\* amount * payment_prob in hundredths of a penny
StrategyFor(inv, p) ==
    LET negative == /\ Band(p).urgency = "critical"
                    /\ estimate_collection_cost(inv) > inv.amount * 30
    IN [status |-> "ok", payment_probability |-> p,
        recommended_action |-> Band(p).recommended_action,
        urgency |-> Band(p).urgency,
        estimated_recovery |-> inv.amount * p,
        cost_benefit |-> IF negative THEN "negative" ELSE None,
        recommendation |-> IF negative THEN "write_off" ELSE None]

NoPrediction == [status |-> "none", value |-> 0, path |-> None]

\* PaymentPredictor.train_model: fit and keep the classifier, or None on any
\* exception
train_model ==
    /\ \E m \in TrainOutcomes : model' = m
    /\ UNCHANGED <<invoice, user_tier, prediction, strategy, acted_today, action,
                   emitted, task_error, interestVars, escalationVars, feeVars,
                   projectionVars, updateVars, idempotencyVars, callVars, limiterVars>>

\* PaymentPredictor.recommend_collection_strategy, the call of
\* predict_payment_probability included
recommend_collection_strategy ==
    /\ \E pr \in PredictOutcomes(invoice, model) :
          /\ prediction' = [status |-> "ok", value |-> pr.value, path |-> pr.path]
          /\ strategy' = StrategyFor(invoice, pr.value)
    /\ UNCHANGED <<invoice, user_tier, model, acted_today, action,
                   emitted, task_error, interestVars, escalationVars, feeVars,
                   projectionVars, updateVars, idempotencyVars, callVars, limiterVars>>

\* mutant: a threshold whose tier requirement is unmet falls back to the
\* action of the threshold before it
ActionMap_Downgrade(days_overdue, tier) ==
    IF days_overdue = 7 THEN "gentle_email"
    ELSE IF days_overdue = 14 THEN "firm_email"
    ELSE IF days_overdue = 15
         THEN (IF tier \in {"growth", "pro"} THEN "first_sms" ELSE "firm_email")
    ELSE IF days_overdue = 20 THEN "second_reminder"
    ELSE IF days_overdue = 25
         THEN (IF tier \in {"growth", "pro"} THEN "first_ai_call" ELSE "second_reminder")
    ELSE IF days_overdue = 30 THEN "final_notice"
    ELSE IF days_overdue = 35
         THEN (IF tier = "pro" THEN "second_ai_call" ELSE "final_notice")
    ELSE IF days_overdue = 40
         THEN (IF tier \in {"growth", "pro"} THEN "physical_letter" ELSE "final_notice")
    ELSE IF days_overdue = 45
         THEN (IF tier = "pro" THEN "final_ai_call" ELSE "physical_letter")
    ELSE IF days_overdue = 50
         THEN (IF tier = "pro" THEN "agency_referral" ELSE "physical_letter")
    ELSE None

\* action_map.get(invoice.days_overdue)
ActionMap(days_overdue, tier) ==
    IF days_overdue = 7 THEN "gentle_email"
    ELSE IF days_overdue = 14 THEN "firm_email"
    ELSE IF days_overdue = 15
         THEN (IF tier \in {"growth", "pro"} THEN "first_sms" ELSE None)
    ELSE IF days_overdue = 20 THEN "second_reminder"
    ELSE IF days_overdue = 25
         THEN (IF tier \in {"growth", "pro"} THEN "first_ai_call" ELSE None)
    ELSE IF days_overdue = 30 THEN "final_notice"
    ELSE IF days_overdue = 35
         THEN (IF tier = "pro" THEN "second_ai_call" ELSE None)
    ELSE IF days_overdue = 40
         THEN (IF tier \in {"growth", "pro"} THEN "physical_letter" ELSE None)
    ELSE IF days_overdue = 45
         THEN (IF tier = "pro" THEN "final_ai_call" ELSE None)
    ELSE IF days_overdue = 50
         THEN (IF tier = "pro" THEN "agency_referral" ELSE None)
    ELSE None

\* mutant: the override without its tier test
OverrideApplies_AnyTier(inv, strat, tier) ==
    /\ strat.urgency \in {"high", "critical"}
    /\ strat.payment_probability < 30
    /\ inv.days_overdue >= 20

\* the two nested ifs that replace the action by 'immediate_ai_call'
OverrideApplies(inv, strat, tier) ==
    /\ strat.urgency \in {"high", "critical"}
    /\ strat.payment_probability < 30
    /\ inv.days_overdue >= 20
    /\ tier \in {"growth", "pro"}

\* mutant: the result without the check of the per-day key
DeterminedAction_IgnoresKey(inv, strat, tier, key_exists) ==
    IF OverrideApplies(inv, strat, tier) THEN "immediate_ai_call"
    ELSE ActionMap(inv.days_overdue, tier)

\* what an awaited determine_collection_action returns
DeterminedAction(inv, strat, tier, key_exists) ==
    IF key_exists THEN None
    ELSE IF OverrideApplies(inv, strat, tier) THEN "immediate_ai_call"
    ELSE ActionMap(inv.days_overdue, tier)

Unset == "<unset>"

\* the coroutine object a call of an async def returns when it is not awaited
Coroutine == "<coroutine object determine_collection_action>"

\* bool(v) of what the name action can hold: only None is falsy
ActionTruthy(v) == v # None

\* an awaited call of determine_collection_action on the invoice, strategy
\* and tier at hand
determine_collection_action ==
    /\ strategy.status = "ok"
    /\ action' = DeterminedAction(invoice, strategy, user_tier, acted_today)
    /\ UNCHANGED <<invoice, user_tier, model, prediction, strategy, acted_today,
                   emitted, task_error, interestVars, escalationVars, feeVars,
                   projectionVars, updateVars, idempotencyVars, callVars, limiterVars>>

\* the key collection_action:<invoice>:<today> comes to exist in redis; no
\* statement of the source writes it
RedisKeySet ==
    /\ ~acted_today
    /\ acted_today' = TRUE
    /\ UNCHANGED <<invoice, user_tier, model, prediction, strategy, action,
                   emitted, task_error, interestVars, escalationVars, feeVars,
                   projectionVars, updateVars, idempotencyVars, callVars, limiterVars>>

\* one run of the daily task over the overdue invoice.  It builds its own
\* PaymentPredictor, asks it for the strategy, binds action to the coroutine
\* determine_collection_action(...) returns without awaiting it, and, the
\* coroutine being truthy, calls execute_collection_action.delay(id, action):
\* the message is handed over (tasks run eagerly) or the serializer raises.
process_collection_escalation ==
    /\ Len(emitted) < MaxSchedulerRuns
    /\ \E m \in TrainOutcomes : \E pr \in PredictOutcomes(invoice, m) :
          strategy' = StrategyFor(invoice, pr.value)
    /\ action' = Coroutine
    /\ IF ActionTruthy(Coroutine)
       THEN \/ emitted' = Append(emitted, Coroutine) /\ task_error' = None
            \/ emitted' = emitted /\ task_error' = "EncodeError"
       ELSE emitted' = emitted /\ task_error' = None
    /\ UNCHANGED <<invoice, user_tier, model, prediction, acted_today,
                   interestVars, escalationVars, feeVars,
                   projectionVars, updateVars, idempotencyVars, callVars, limiterVars>>

(***************************************************************************)
(* Inputs of the predictor and the scheduler                               *)
(***************************************************************************)
MakeInvoice(amount, days_overdue, dispute_status) ==
    [amount |-> amount, days_overdue |-> days_overdue, dispute_status |-> dispute_status]

DaysOverdueInputs == {7, 14, 15, 20, 25, 29, 30, 35, 40, 45, 50, 60, 61}
AmountInputs == {9999, 10000, 100000, 100001}
DisputeInputs == {None, "", "open"}
Tiers == {"starter", "growth", "pro"}

\* strategy dicts a caller of determine_collection_action may pass
StrategyInputs ==
    {[NoStrategy EXCEPT !.status = "ok", !.urgency = u, !.payment_probability = p] :
        <<u, p>> \in {<<"low", 10>>, <<"medium", 50>>, <<"high", 29>>,
                      <<"high", 30>>, <<"critical", 10>>}}

InitPredictor ==
    /\ invoice \in {MakeInvoice(a, d, ds) :
                       a \in AmountInputs, d \in DaysOverdueInputs, ds \in DisputeInputs}
    /\ model \in TrainOutcomes
    /\ prediction = NoPrediction
    /\ strategy = NoStrategy

IdleScheduler ==
    /\ user_tier = "starter"
    /\ acted_today = FALSE
    /\ action = Unset
    /\ emitted = <<>>
    /\ task_error = None

InitScheduler ==
    /\ invoice \in {MakeInvoice(50000, d, ds) :
                       d \in DaysOverdueInputs, ds \in {None, "open"}}
    /\ user_tier \in Tiers
    /\ model = None
    /\ prediction = NoPrediction
    /\ strategy \in StrategyInputs
    /\ acted_today = FALSE
    /\ action = Unset
    /\ emitted = <<>>
    /\ task_error = None

IdleCollections ==
    /\ invoice = MakeInvoice(50000, 7, None)
    /\ model = None
    /\ prediction = NoPrediction
    /\ strategy = NoStrategy
    /\ IdleScheduler

(***************************************************************************)
(* The services before any request: the court-fee endpoint, the interest   *)
(* projection, the base-rate update check, the webhook idempotency         *)
(* handler, the AI-call cooldown and the rate limiter                      *)
(***************************************************************************)
NoFeeResponse == [status |-> "none", court_fee |-> 0]

IdleFee ==
    /\ claim = 0
    /\ fee_response = NoFeeResponse

IdleProjection ==
    /\ projection_args = [principal_amount |-> 0, due_date |-> Date(2019, 1, 1),
                          projection_days |-> 0]
    /\ projections = Absent

NoUpdateInfo ==
    [status |-> "none", update_due |-> FALSE, next_update_date |-> Date(0, 0, 0),
     days_until_update |-> 0]

IdleUpdate ==
    /\ check_date = Date(2025, 1, 1)
    /\ update_info = NoUpdateInfo

\* the concurrent deliveries of one webhook event
Callers == 1..NumCallers

\* redis holds nothing under the key
NoRecord == [status |-> "absent", result |-> None]

\* a call that has not ended yet
NoOutcome == [kind |-> "none", value |-> None]

IdleIdempotency ==
    /\ idem_store = NoRecord
    /\ idem_pc = [c \in Callers |-> "idle"]
    /\ idem_outcome = [c \in Callers |-> NoOutcome]
    /\ handler_runs = 0

\* the concurrent /initiate-call requests for one invoice
CallRequests == 1..NumCallRequests

IdleCalls ==
    /\ call_now = 0
    /\ call_pc = [r \in CallRequests |-> "idle"]
    /\ invoice_call_history = <<>>
    /\ calls_placed = <<>>
    /\ call_response = [r \in CallRequests |-> None]

\* the concurrent requests of one user
LimitRequests == 1..NumLimitRequests
Windows == {"hourly", "daily", "monthly"}

IdleLimiter ==
    /\ usage = [w \in Windows |-> 0]
    /\ limit_pc = [r \in LimitRequests |-> "idle"]
    /\ limit_response = [r \in LimitRequests |-> None]

IdleServices ==
    /\ IdleFee
    /\ IdleProjection
    /\ IdleUpdate
    /\ IdleIdempotency
    /\ IdleCalls
    /\ IdleLimiter

(***************************************************************************)
(* decision_engine/main.py: POST /calculate-court-fee.  The claim is held  *)
(* in pence, the fee in hundredths of a penny.                             *)
(***************************************************************************)
\* the claim amounts at which the fee schedule changes, and 200000 where the
\* 5% reaches the cap
ClaimBoundaries ==
    {Pounds(300), Pounds(500), Pounds(1000), Pounds(1500), Pounds(3000),
     Pounds(5000), Pounds(10000), Pounds(200000)}

ClaimAmounts ==
    {b + d : b \in ClaimBoundaries, d \in {-10000, -100, -1, 0, 1, 100, 10000}}
    \cup {-100, 0, 1}

InitFee ==
    /\ claim \in ClaimAmounts
    /\ fee_response = NoFeeResponse

\* the court_fee of the answer; percentage_of_claim is left out
calculate_court_fee_endpoint ==
    /\ fee_response' = [status |-> "ok", court_fee |-> calculate_court_fee(claim)]
    /\ UNCHANGED <<claim, interestVars, escalationVars, collectionVars, projectionVars,
                   updateVars, idempotencyVars, callVars, limiterVars>>

(***************************************************************************)
(* services/collections.py: project_interest_accrual                       *)
(***************************************************************************)
BANK_OF_ENGLAND_BASE_RATE == 525

\* dt + timedelta(days=1)
NextDay(dt) ==
    IF dt.day < DaysInMonth(dt.year, dt.month) THEN Date(dt.year, dt.month, dt.day + 1)
    ELSE IF dt.month < 12 THEN Date(dt.year, dt.month + 1, 1)
    ELSE Date(dt.year + 1, 1, 1)

\* dt + timedelta(days=n)
RECURSIVE AddDays(_, _)
AddDays(dt, n) == IF n = 0 THEN dt ELSE NextDay(AddDays(dt, n - 1))

\* the snapshots the loop body can append for one day
SnapshotOutcomes(a, day) ==
    LET fixed_recovery_cost == get_fixed_recovery_cost(a.principal_amount)
        bank_base_rate == BANK_OF_ENGLAND_BASE_RATE
        interest_rate == STATUTORY_INTEREST_RATE + bank_base_rate
        accrued == AccruedExact(a.principal_amount, interest_rate, day)
        total == TotalExact(a.principal_amount, accrued, fixed_recovery_cost)
    IN {[day |-> day, date |-> AddDays(a.due_date, day),
         interest_accrued |-> ia, total_owed |-> tot] :
            ia \in Round2(accrued.whole, accrued.rem),
            tot \in Round2(total.whole, total.rem)}

\* the lists of the first k snapshots, for day in range(k)
RECURSIVE ProjectionOutcomes(_, _)
ProjectionOutcomes(a, k) ==
    IF k = 0 THEN {<<>>}
    ELSE {Append(s, snap) : s \in ProjectionOutcomes(a, k - 1),
                            snap \in SnapshotOutcomes(a, k - 1)}

ProjectionPrincipals == {0, 250, 100000, 1000000}

InitProjection ==
    /\ \E pa \in ProjectionPrincipals, dd \in DueDates, n \in 0..MaxProjectionDays :
          projection_args = [principal_amount |-> pa, due_date |-> dd,
                             projection_days |-> n]
    /\ projections = Absent

project_interest_accrual ==
    /\ \E list \in ProjectionOutcomes(projection_args, projection_args.projection_days + 1) :
          projections' = Some(list)
    /\ UNCHANGED <<projection_args, interestVars, escalationVars, collectionVars, feeVars,
                   updateVars, idempotencyVars, callVars, limiterVars>>

(***************************************************************************)
(* utils/base_rate_history.py: check_base_rate_update_due                  *)
(***************************************************************************)
\* any(entry.effective_from == day for entry in BASE_RATE_HISTORY)
HasRateFor(day) ==
    \E n \in 1..Len(BASE_RATE_HISTORY) : BASE_RATE_HISTORY[n].effective_from = day

\* the dict returned when date.today() is now
UpdateInfo(now) ==
    LET next_update_date ==
            IF now.month < 7 THEN Date(now.year, 7, 1)
            ELSE IF now.month = 7 /\ now.day = 1 THEN Date(now.year, 7, 1)
            ELSE Date(now.year + 1, 1, 1)
        days_until_update == DaysBetween(next_update_date, now)
    IN [status |-> "ok",
        update_due |-> /\ 0 <= days_until_update
                       /\ days_until_update <= 7
                       /\ ~HasRateFor(next_update_date),
        next_update_date |-> next_update_date,
        days_until_update |-> days_until_update]

\* the days around the two boundaries of each year, and two days far from both
CheckDates ==
    {Date(y, 12, d) : y \in 2025..MaxCheckYear, d \in 20..31}
    \cup {Date(y, 1, d) : y \in 2025..MaxCheckYear, d \in 1..12}
    \cup {Date(y, 6, d) : y \in 2025..MaxCheckYear, d \in 20..30}
    \cup {Date(y, 7, d) : y \in 2025..MaxCheckYear, d \in 1..12}
    \cup {Date(y, md[1], md[2]) : y \in 2025..MaxCheckYear, md \in {<<3, 15>>, <<9, 16>>}}

InitUpdate ==
    /\ check_date \in CheckDates
    /\ update_info = NoUpdateInfo

check_base_rate_update_due ==
    /\ update_info' = UpdateInfo(check_date)
    /\ UNCHANGED <<check_date, interestVars, escalationVars, collectionVars, feeVars,
                   projectionVars, idempotencyVars, callVars, limiterVars>>

(***************************************************************************)
(* Webhook idempotency (idempotency_py.py).  Every caller is one delivery  *)
(* of the same provider event, so all of them use the same redis key.      *)
(* Each await of handle_webhook is one step.  The redis commands           *)
(* themselves are taken to succeed.                                        *)
(***************************************************************************)

\* what process_stripe_event returns: True, False, or None by falling off
\* the end for an event type it does not handle
HandlerResults == {PyTrue, PyFalse, None}

CallReturned(v) == [kind |-> "returned", value |-> v]
CallRaised(e) == [kind |-> "raised", value |-> e]

\* json.loads(json.dumps(.)) of the cached records: true, false and null
\* come back as True, False and None
JsonRoundTrip(v) ==
    CASE v = PyTrue -> PyTrue
      [] v = PyFalse -> PyFalse
      [] OTHER -> None

Processing == [status |-> "processing", result |-> None]
Completed(r) == [status |-> "completed", result |-> JsonRoundTrip(r)]
Failed == [status |-> "failed", result |-> None]

\* lines 21-28 with the mutation that an unsuccessful record is answered
\* like a completed one
ExistingOutcome_AnyRecordCached(existing) == CallReturned(existing.result)

\* lines 21-28: what a call does with the record it found
ExistingOutcome(existing) ==
    IF existing.status = "completed"
    THEN CallReturned(existing.result)
    ELSE CallRaised("ValueError")

InitIdempotency ==
    /\ idem_store = NoRecord
    /\ idem_pc = [c \in Callers |-> "idle"]
    /\ idem_outcome = [c \in Callers |-> NoOutcome]
    /\ handler_runs = 0

\* line 20 and the branch on its answer (lines 21-28)
redis_get(c) ==
    /\ idem_pc[c] = "idle"
    /\ IF idem_store.status # "absent"
       THEN /\ idem_pc' = [idem_pc EXCEPT ![c] = "done"]
            /\ idem_outcome' =
                   [idem_outcome EXCEPT ![c] = ExistingOutcome(idem_store)]
       ELSE /\ idem_pc' = [idem_pc EXCEPT ![c] = "try"]
            /\ UNCHANGED idem_outcome
    /\ UNCHANGED <<idem_store, handler_runs>>
    /\ UNCHANGED <<interestVars, escalationVars, collectionVars, feeVars,
                   projectionVars, updateVars, callVars, limiterVars>>

\* line 33
set_processing(c) ==
    /\ idem_pc[c] = "try"
    /\ idem_store' = Processing
    /\ idem_pc' = [idem_pc EXCEPT ![c] = "handler"]
    /\ UNCHANGED <<idem_outcome, handler_runs>>
    /\ UNCHANGED <<interestVars, escalationVars, collectionVars, feeVars,
                   projectionVars, updateVars, callVars, limiterVars>>

\* line 36: the handler runs and returns a result or raises
run_handler(c) ==
    /\ idem_pc[c] = "handler"
    /\ handler_runs' = handler_runs + 1
    /\ \/ \E r \in HandlerResults :
             /\ idem_outcome' = [idem_outcome EXCEPT ![c] = CallReturned(r)]
             /\ idem_pc' = [idem_pc EXCEPT ![c] = "store_completed"]
       \/ /\ idem_outcome' =
                 [idem_outcome EXCEPT ![c] = CallRaised("Exception")]
          /\ idem_pc' = [idem_pc EXCEPT ![c] = "store_failed"]
    /\ UNCHANGED idem_store
    /\ UNCHANGED <<interestVars, escalationVars, collectionVars, feeVars,
                   projectionVars, updateVars, callVars, limiterVars>>

\* lines 39-42
set_completed(c) ==
    /\ idem_pc[c] = "store_completed"
    /\ idem_store' = Completed(idem_outcome[c].value)
    /\ idem_pc' = [idem_pc EXCEPT ![c] = "done"]
    /\ UNCHANGED <<idem_outcome, handler_runs>>
    /\ UNCHANGED <<interestVars, escalationVars, collectionVars, feeVars,
                   projectionVars, updateVars, callVars, limiterVars>>

\* lines 43-47
set_failed(c) ==
    /\ idem_pc[c] = "store_failed"
    /\ idem_store' = Failed
    /\ idem_pc' = [idem_pc EXCEPT ![c] = "done"]
    /\ UNCHANGED <<idem_outcome, handler_runs>>
    /\ UNCHANGED <<interestVars, escalationVars, collectionVars, feeVars,
                   projectionVars, updateVars, callVars, limiterVars>>

\* the ex= of lines 33, 40 and 46: redis drops the key when its time is up
key_expires ==
    /\ idem_store.status # "absent"
    /\ idem_store' = NoRecord
    /\ handler_runs' = 0
    /\ UNCHANGED <<idem_pc, idem_outcome>>
    /\ UNCHANGED <<interestVars, escalationVars, collectionVars, feeVars,
                   projectionVars, updateVars, callVars, limiterVars>>

(***************************************************************************)
(* AI call cooldown (ai_voice_agent/call_manager.py, main.py).  The        *)
(* service is one uvicorn process (main.py lines 350-360) and the only     *)
(* await of the /initiate-call handler, twilio_client.initiate_call, is a  *)
(* coroutine without an await of its own: it calls the blocking            *)
(* client.calls.create (twilio_integration.py lines 38-85), so the event   *)
(* loop never switches to another request between the cooldown check and   *)
(* save_call.  A request is therefore handled in one step; while it is     *)
(* handled the clock may still advance.  Times are in hours.               *)
(***************************************************************************)

\* cooldown_hours: int = 24
cooldown_hours == 24

\* the minimum amount of line 134, in pounds
MinimumCallAmount == 50

RECURSIVE LatestCall(_)
\* max(last_calls) of a non-empty list
LatestCall(last_calls) ==
    IF Len(last_calls) = 1
    THEN Head(last_calls)
    ELSE LET rest == LatestCall(Tail(last_calls))
         IN  IF Head(last_calls) >= rest THEN Head(last_calls) ELSE rest

\* is_in_cooldown with the mutation that the period is not added
is_in_cooldown_NoPeriod(history, now) ==
    IF history = <<>>
    THEN FALSE
    ELSE now < LatestCall(history)

\* CallManager.is_in_cooldown for the invoice's history at the time now
is_in_cooldown(history, now) ==
    IF history = <<>>
    THEN FALSE
    ELSE now < LatestCall(history) + cooldown_hours

\* hours that can pass while Twilio's blocking request is made
TwilioDelays == {0, 1}

\* request amounts on both sides of the minimum
CallAmounts == {MinimumCallAmount - 1, MinimumCallAmount}

InitCalls ==
    /\ call_now = 0
    /\ call_pc = [r \in CallRequests |-> "idle"]
    /\ invoice_call_history = <<>>
    /\ calls_placed = <<>>
    /\ call_response = [r \in CallRequests |-> None]

\* POST /initiate-call, lines 130-198
initiate_call(r) ==
    /\ call_pc[r] = "idle"
    /\ call_pc' = [call_pc EXCEPT ![r] = "done"]
    /\ \E amount \in CallAmounts :
          IF amount < MinimumCallAmount
          THEN /\ call_response' = [call_response EXCEPT ![r] = "400"]
               /\ UNCHANGED <<call_now, invoice_call_history, calls_placed>>
          ELSE IF is_in_cooldown(invoice_call_history, call_now)
          THEN /\ call_response' = [call_response EXCEPT ![r] = "429"]
               /\ UNCHANGED <<call_now, invoice_call_history, calls_placed>>
          ELSE \E before \in TwilioDelays, after \in TwilioDelays :
                  /\ call_now + before + after <= MaxCallHours
                  /\ call_now' = call_now + before + after
                  /\ \/ \* call_result["success"] is false: no call was made
                        /\ call_response' =
                               [call_response EXCEPT ![r] = "failure"]
                        /\ UNCHANGED <<invoice_call_history, calls_placed>>
                     \/ \* Twilio made the call; save_call records now()
                        /\ calls_placed' =
                               Append(calls_placed, call_now + before)
                        /\ invoice_call_history' =
                               Append(invoice_call_history, call_now')
                        /\ call_response' =
                               [call_response EXCEPT ![r] = "success"]
    /\ UNCHANGED <<interestVars, escalationVars, collectionVars, feeVars,
                   projectionVars, updateVars, idempotencyVars, limiterVars>>

\* an hour passes between requests
clock_advances ==
    /\ call_now < MaxCallHours
    /\ call_now' = call_now + 1
    /\ UNCHANGED <<call_pc, invoice_call_history, calls_placed, call_response>>
    /\ UNCHANGED <<interestVars, escalationVars, collectionVars, feeVars,
                   projectionVars, updateVars, idempotencyVars, limiterVars>>

(***************************************************************************)
(* Rate limiter (python-backend/rate_limiter_py.py).  Every request is of  *)
(* the same user, whose tier check_limit fixes to "pro" (line 37), and of  *)
(* the action ai_calls, which has a limit in all three windows and, its    *)
(* name not being a key of self.costs, no cost (lines 49-50).  Each        *)
(* awaited redis command is one step; count is 1.                          *)
(***************************************************************************)

\* self.limits['pro'][window]['ai_calls']
RateLimits == [hourly |-> 2, daily |-> 5, monthly |-> 50]

\* the order in which check_limit asks the windows
WindowAfter(w) ==
    CASE w = "hourly" -> "daily"
      [] w = "daily" -> "monthly"
      [] OTHER -> "allowed"

\* the windows that start anew together with window w
WindowsWithin(w) ==
    CASE w = "hourly" -> {"hourly"}
      [] w = "daily" -> {"hourly", "daily"}
      [] OTHER -> {"hourly", "daily", "monthly"}

\* line 79 of _is_allowed
is_allowed(current_usage, count, limit) ==
    current_usage + count <= limit

InitLimiter ==
    /\ usage = [w \in Windows |-> 0]
    /\ limit_pc = [r \in LimitRequests |-> "idle"]
    /\ limit_response = [r \in LimitRequests |-> None]

\* a request calls check_limit (line 35) and is about to ask the first window
check_limit(r) ==
    /\ limit_pc[r] = "idle"
    /\ limit_pc' = [limit_pc EXCEPT ![r] = "hourly"]
    /\ UNCHANGED <<usage, limit_response>>
    /\ UNCHANGED <<interestVars, escalationVars, collectionVars, feeVars,
                   projectionVars, updateVars, idempotencyVars, callVars>>

\* one of lines 41, 43, 45: the redis.get of _is_allowed and its verdict
window_checked(r) ==
    /\ limit_pc[r] \in Windows
    /\ LET w == limit_pc[r]
       IN  IF is_allowed(usage[w], 1, RateLimits[w])
           THEN /\ limit_pc' = [limit_pc EXCEPT ![r] = WindowAfter(w)]
                /\ limit_response' =
                       [limit_response EXCEPT
                          ![r] = IF WindowAfter(w) = "allowed"
                                 THEN "allowed" ELSE @]
           ELSE /\ limit_pc' = [limit_pc EXCEPT ![r] = "done"]
                /\ limit_response' = [limit_response EXCEPT ![r] = "rejected"]
    /\ UNCHANGED usage
    /\ UNCHANGED <<interestVars, escalationVars, collectionVars, feeVars,
                   projectionVars, updateVars, idempotencyVars, callVars>>

\* consume_limit, lines 57-71: the pipeline adds count to all three windows
consume_limit(r) ==
    /\ limit_pc[r] = "allowed"
    /\ usage' = [w \in Windows |-> usage[w] + 1]
    /\ limit_pc' = [limit_pc EXCEPT ![r] = "done"]
    /\ UNCHANGED limit_response
    /\ UNCHANGED <<interestVars, escalationVars, collectionVars, feeVars,
                   projectionVars, updateVars, idempotencyVars, callVars>>

\* lines 89-105: the hour, day or month changes, and the keys of the
\* windows that begin have no counter yet
window_begins(w) ==
    /\ usage[w] > 0
    /\ usage' = [v \in Windows |->
                    IF v \in WindowsWithin(w) THEN 0 ELSE usage[v]]
    /\ UNCHANGED <<limit_pc, limit_response>>
    /\ UNCHANGED <<interestVars, escalationVars, collectionVars, feeVars,
                   projectionVars, updateVars, idempotencyVars, callVars>>

(***************************************************************************)
(* Specifications                                                          *)
(***************************************************************************)
IdleInterest ==
    /\ params = [principal_amount |-> 0, due_date |-> Date(2019, 1, 1),
                 current_date |-> Absent, custom_base_rate |-> Absent,
                 use_historical_rate |-> TRUE]
    /\ today = Clock[1]
    /\ rate_info = NoRateInfo
    /\ result = NoResult

IdleEscalation ==
    /\ esc_params = DefaultEscalationParams
    /\ recommendation = NoRecommendation
    /\ esc_calls = 0
    /\ request_assets = None

InitI == InitInterest /\ IdleEscalation /\ IdleCollections /\ IdleServices
NextI == Tick \/ calculate_late_payment_interest
SpecInterest == InitI /\ [][NextI]_vars

InitE == IdleInterest /\ InitEscalation /\ IdleCollections /\ IdleServices
NextE == generate_escalation_recommendation \/ recommend_escalation
SpecEscalation == InitE /\ [][NextE]_vars

InitP == IdleInterest /\ IdleEscalation /\ InitPredictor /\ IdleScheduler /\ IdleServices
NextP == train_model \/ recommend_collection_strategy
SpecPredictor == InitP /\ [][NextP]_vars

InitS == IdleInterest /\ IdleEscalation /\ InitScheduler /\ IdleServices
NextS == RedisKeySet \/ determine_collection_action \/ process_collection_escalation
SpecScheduler == InitS /\ [][NextS]_vars

InitF == /\ IdleInterest /\ IdleEscalation /\ IdleCollections
         /\ InitFee /\ IdleProjection /\ IdleUpdate /\ IdleIdempotency
         /\ IdleCalls /\ IdleLimiter
NextF == calculate_court_fee_endpoint
SpecCourtFee == InitF /\ [][NextF]_vars

InitJ == /\ IdleInterest /\ IdleEscalation /\ IdleCollections
         /\ IdleFee /\ InitProjection /\ IdleUpdate /\ IdleIdempotency
         /\ IdleCalls /\ IdleLimiter
NextJ == project_interest_accrual
SpecProjection == InitJ /\ [][NextJ]_vars

InitU == /\ IdleInterest /\ IdleEscalation /\ IdleCollections
         /\ IdleFee /\ IdleProjection /\ InitUpdate /\ IdleIdempotency
         /\ IdleCalls /\ IdleLimiter
NextU == check_base_rate_update_due
SpecUpdateCheck == InitU /\ [][NextU]_vars

\* concurrent deliveries of one webhook event
InitW == /\ IdleInterest /\ IdleEscalation /\ IdleCollections
         /\ IdleFee /\ IdleProjection /\ IdleUpdate /\ InitIdempotency
         /\ IdleCalls /\ IdleLimiter
NextW ==
    \/ \E c \in Callers : redis_get(c)
    \/ \E c \in Callers : set_processing(c)
    \/ \E c \in Callers : run_handler(c)
    \/ \E c \in Callers : set_completed(c)
    \/ \E c \in Callers : set_failed(c)
    \/ key_expires
SpecIdempotency == InitW /\ [][NextW]_vars

\* concurrent /initiate-call requests for one invoice
InitC == /\ IdleInterest /\ IdleEscalation /\ IdleCollections
         /\ IdleFee /\ IdleProjection /\ IdleUpdate /\ IdleIdempotency
         /\ InitCalls /\ IdleLimiter
NextC ==
    \/ \E r \in CallRequests : initiate_call(r)
    \/ clock_advances
SpecCalls == InitC /\ [][NextC]_vars

\* concurrent requests of one user
InitL == /\ IdleInterest /\ IdleEscalation /\ IdleCollections
         /\ IdleFee /\ IdleProjection /\ IdleUpdate /\ IdleIdempotency
         /\ IdleCalls /\ InitLimiter
NextL ==
    \/ \E r \in LimitRequests : check_limit(r)
    \/ \E r \in LimitRequests : window_checked(r)
    \/ \E r \in LimitRequests : consume_limit(r)
    \/ \E w \in Windows : window_begins(w)
SpecLimiter == InitL /\ [][NextL]_vars

(***************************************************************************)
(* Properties of the interest calculator (SpecInterest)                    *)
(***************************************************************************)
\* the evaluation date of a call made in the current state
EvaluationDate == IF params.current_date = Absent THEN today ELSE params.current_date[1]

\* the statute's interest principal * rate * days / 365 in whole pence and a
\* remainder over 3650000, rate in basis points
StatuteInterest(principal, rate, days) ==
    LET n == principal * rate
        a == n % 3650000
        hi == (a * 64) % 3650000
        rest == hi * (days \div 64) + a * (days % 64)
    IN [whole |-> (n \div 3650000) * days + ((a * 64) \div 3650000) * (days \div 64)
                    + (rest \div 3650000),
        rem |-> rest % 3650000]

\* C1: a call of calculate_late_payment_interest raises exactly when
\* principal_amount <= 0 or due_date > current_date, and otherwise returns a
\* result for the principal as given and the true (current_date - due_date)
\* days, never a value clamped to zero.
C1_ErrorExactlyOnInvalidInput ==
    [][today' = today =>
         LET invalid == \/ params.principal_amount <= 0
                        \/ DateLT(EvaluationDate, params.due_date)
         IN /\ result'.status \in {"ok", "error"}
            /\ (result'.status = "error") <=> invalid
            /\ result'.status = "ok" =>
                 /\ result'.principal_amount = params.principal_amount
                 /\ result'.days_overdue
                      = ToOrdinal(EvaluationDate) - ToOrdinal(params.due_date)
                 /\ result'.days_overdue >= 0]_vars

C1_Witness ==
    /\ result.status = "error"
    /\ result.error = "Due date cannot be in the future"
    /\ params.principal_amount > 0

ReturnedSum ==
    result.principal_amount + result.interest_accrued + result.fixed_recovery_cost * 100

\* C2 as stated: the returned total_owed equals the sum of the returned
\* principal_amount, interest_accrued and fixed_recovery_cost.
C2_TotalIsSumOfReturnedParts ==
    result.status = "ok" => result.total_owed = ReturnedSum

\* C2 as amended: the returned total_owed is within one penny of the sum of
\* the returned parts, and equal to it whenever the unrounded interest is not
\* an exact half penny.
C2_TotalWithinOnePenny ==
    result.status = "ok" =>
        LET exact == StatuteInterest(result.principal_amount, result.interest_rate,
                                     result.days_overdue)
        IN /\ result.total_owed - ReturnedSum \in {-1, 0, 1}
           /\ 2 * exact.rem # 3650000 => result.total_owed = ReturnedSum

C2_Witness ==
    /\ result.status = "ok"
    /\ result.days_overdue > 0
    /\ result.total_owed = ReturnedSum + 1

\* C3: the lookup made by a calculation targets 30 June of the due year for a
\* due month of July-December and 31 December of the year before for
\* January-June; it returns the table entry with the greatest reference_date
\* not after the target, which is the target itself whenever the table holds
\* it (due 2024-08-15 gives 2024-06-30, due 2024-03-01 gives 2023-12-31).
C3_ReferenceDateRule ==
    rate_info # NoRateInfo =>
        LET due == params.due_date
            target == IF due.month \in 7..12 THEN Date(due.year, 6, 30)
                      ELSE Date(due.year - 1, 12, 31)
            entries == {BASE_RATE_HISTORY[i] : i \in 1..Len(BASE_RATE_HISTORY)}
            older == {e \in entries : DateLE(e.reference_date, target)}
        IN /\ older # {} =>
                /\ \E e \in older : /\ e.reference_date = rate_info.reference_date
                                    /\ e.rate = rate_info.rate
                                    /\ e.effective_from = rate_info.effective_from
                /\ \A e \in older : DateLE(e.reference_date, rate_info.reference_date)
           /\ (\E e \in entries : e.reference_date = target) =>
                rate_info.reference_date = target
           /\ due = Date(2024, 8, 15) => rate_info.reference_date = Date(2024, 6, 30)
           /\ due = Date(2024, 3, 1) => rate_info.reference_date = Date(2023, 12, 31)

C3_Witness ==
    /\ params.due_date = Date(2024, 8, 15)
    /\ rate_info.reference_date = Date(2024, 6, 30)
    /\ result.status = "ok"

\* C4: the fixed recovery cost reported by a calculation is 40 up to 999.99,
\* 70 above that up to 9999.99 and 100 above that, and it is the value of
\* get_fixed_recovery_cost for the principal.
C4_FixedRecoveryCostBands ==
    result.status = "ok" =>
        LET p == result.principal_amount
            expected == IF p <= 99999 THEN 40 ELSE IF p <= 999999 THEN 70 ELSE 100
        IN /\ result.fixed_recovery_cost = expected
           /\ get_fixed_recovery_cost(p) = expected
           /\ p = 99999 => result.fixed_recovery_cost = 40
           /\ p = 100000 => result.fixed_recovery_cost = 70
           /\ p = 999999 => result.fixed_recovery_cost = 70
           /\ p = 1000000 => result.fixed_recovery_cost = 100

C4_Witness ==
    /\ result.status = "ok"
    /\ result.principal_amount = 100000
    /\ result.fixed_recovery_cost = 70

SameInvoiceLaterDay ==
    /\ result.status = "ok"
    /\ result'.status = "ok"
    /\ result.principal_amount = result'.principal_amount
    /\ result.interest_rate = result'.interest_rate
    /\ result.days_overdue < result'.days_overdue

\* C5 as stated: between two calculations of one invoice at one rate, the
\* later evaluation date returns a strictly greater interest_accrued.
C5_StrictlyIncreasing ==
    [][SameInvoiceLaterDay => result.interest_accrued < result'.interest_accrued]_vars

\* C5 as amended: the later evaluation date returns an interest_accrued that
\* is not smaller, and strictly greater whenever the unrounded interest of the
\* two dates differs by more than one penny.
C5_NonDecreasing ==
    [][SameInvoiceLaterDay =>
         LET e1 == StatuteInterest(result.principal_amount, result.interest_rate,
                                   result.days_overdue)
             e2 == StatuteInterest(result.principal_amount, result.interest_rate,
                                   result'.days_overdue)
             apart == \/ e2.whole - e1.whole > 1
                      \/ e2.whole - e1.whole = 1 /\ e2.rem > e1.rem
         IN /\ result.interest_accrued <= result'.interest_accrued
            /\ apart => result.interest_accrued < result'.interest_accrued]_vars

C5_Witness ==
    /\ result.status = "ok"
    /\ params.current_date = Absent
    /\ today = Clock[2]
    /\ result.days_overdue = ToOrdinal(Clock[2]) - ToOrdinal(params.due_date)
    /\ result.days_overdue > ToOrdinal(Clock[1]) - ToOrdinal(params.due_date)
    /\ ToOrdinal(Clock[1]) - ToOrdinal(params.due_date) >= 0
    /\ result.interest_accrued > 0

\* C6: every returned result has interest_accrued >= 0 and
\* total_owed >= principal_amount.
C6_InterestNonNegative ==
    result.status = "ok" =>
        /\ result.interest_accrued >= 0
        /\ result.total_owed >= result.principal_amount

C6_Witness ==
    /\ result.status = "ok"
    /\ result.days_overdue > 0
    /\ result.interest_accrued > 0
    /\ result.total_owed > result.principal_amount

\* C7: when the target reference date lies before every reference_date of
\* the table, the lookup returns the oldest entry and the calculation
\* returns a result that uses that entry's rate.
C7_FallbackToOldestEntry ==
    LET due == params.due_date
        target == IF due.month \in 7..12 THEN Date(due.year, 6, 30)
                  ELSE Date(due.year - 1, 12, 31)
        entries == {BASE_RATE_HISTORY[i] : i \in 1..Len(BASE_RATE_HISTORY)}
        oldest == CHOOSE e \in entries :
                      \A f \in entries : DateLE(e.effective_from, f.effective_from)
    IN (rate_info # NoRateInfo /\ \A e \in entries : DateLT(target, e.reference_date)) =>
          /\ rate_info.rate = oldest.rate
          /\ rate_info.reference_date = oldest.reference_date
          /\ rate_info.effective_from = oldest.effective_from
          /\ result.status = "ok"
          /\ result.bank_base_rate = oldest.rate
          /\ result.interest_rate = 800 + oldest.rate

C7_Witness ==
    /\ rate_info.warned
    /\ params.due_date = Date(2019, 7, 1)
    /\ result.status = "ok"
    /\ result.bank_base_rate = 75

(***************************************************************************)
(* Properties of the escalation engine (SpecEscalation)                    *)
(***************************************************************************)
BoundaryScenario ==
    /\ esc_params.invoice_amount = 300000
    /\ esc_params.days_overdue = 95
    /\ esc_params.is_disputed_debt
    /\ esc_params.debtor_type = "business"
    /\ esc_params.previous_attempts = 7
    /\ esc_params.relationship_value = "low"
    /\ esc_params.has_written_contract
    /\ esc_params.has_proof_of_delivery

\* C8: for the boundary scenario (3000, 95 days, disputed, business, 7
\* attempts, low relationship, contract and proof of delivery) the call
\* returns primary_option court, whether debtor_has_assets is the string
\* "true", True, False or None.
C8_BoundaryScenarioSelectsCourt ==
    (/\ BoundaryScenario
     /\ esc_params.debtor_has_assets \in {"'true'", PyTrue, PyFalse, None}
     /\ recommendation.status # "none") =>
        /\ recommendation.status = "ok"
        /\ recommendation.primary_option = "court"

C8_Witness ==
    /\ BoundaryScenario
    /\ esc_params.debtor_has_assets = "'true'"
    /\ recommendation.status = "ok"
    /\ recommendation.primary_option = "court"

OptionSet == {"court", "agency", "write_off", "continue_internal"}

\* the sum of the eight factors' deltas for one candidate
ScoreOf(opt) ==
    Factor1(esc_params)[opt] + Factor2(esc_params)[opt] + Factor3(esc_params)[opt]
    + Factor4(esc_params)[opt] + Factor5(esc_params)[opt] + Factor6(esc_params)[opt]
    + Factor7(esc_params)[opt] + Factor8(esc_params)[opt]

\* C9: the primary_option of a returned recommendation is one of the four
\* candidates and its final score, the sum of the eight factors' deltas, is
\* at least the final score of each other candidate.
C9_PrimaryHasHighestScore ==
    recommendation.status = "ok" =>
        /\ recommendation.primary_option \in OptionSet
        /\ \A opt \in OptionSet :
              /\ recommendation.scores[opt] = ScoreOf(opt)
              /\ ScoreOf(opt) <= ScoreOf(recommendation.primary_option)

C9_Witness ==
    /\ recommendation.status = "ok"
    /\ recommendation.primary_option = "agency"
    /\ ScoreOf("agency") > ScoreOf("court")
    /\ ScoreOf("agency") > ScoreOf("continue_internal")

\* C10: every call returns a recommendation whose primary_option is one of
\* the four options; none raises, an invoice_amount of 0 included.
C10_NeverRaises ==
    recommendation.status # "none" =>
        /\ recommendation.status = "ok"
        /\ recommendation.primary_option \in OptionSet

C12_ConfidenceIsClampedScore ==
    recommendation.status = "ok" =>
        LET score == ScoreOf(recommendation.primary_option)
        IN /\ recommendation.confidence =
                 (IF score < 50 THEN 50 ELSE IF score > 95 THEN 95 ELSE score)
           /\ recommendation.confidence >= 50
           /\ recommendation.confidence <= 95

C12_Witness ==
    /\ recommendation.status = "ok"
    /\ ScoreOf(recommendation.primary_option) > 95
    /\ recommendation.confidence = 95

\* the asset status of the call just served is unknown: a direct call with
\* debtor_has_assets unset, or a request whose debtor_has_assets is "unknown"
AssetStatusUnknown ==
    \/ request_assets = None /\ esc_params.debtor_has_assets = None
    \/ request_assets = "unknown"

\* the sum of the first seven factors' deltas for one candidate
ScoreBeforeAssets(opt) ==
    Factor1(esc_params)[opt] + Factor2(esc_params)[opt] + Factor3(esc_params)[opt]
    + Factor4(esc_params)[opt] + Factor5(esc_params)[opt] + Factor6(esc_params)[opt]
    + Factor7(esc_params)[opt]

\* C20: when the asset status is unknown, through a direct call or through
\* the endpoint, factor 8 leaves every candidate's score as the first seven
\* factors made it and adds no warning.
C20_UnknownAssetsNeutral ==
    (recommendation.status = "ok" /\ AssetStatusUnknown) =>
        /\ \A opt \in OptionSet : recommendation.scores[opt] = ScoreBeforeAssets(opt)
        /\ \A n \in 1..Len(recommendation.warnings) :
              recommendation.warnings[n] # "no_assets"

(***************************************************************************)
(* Properties of the collection scheduler (SpecScheduler)                  *)
(***************************************************************************)
\* C13: on one calendar day, however many times the scheduler runs, at most
\* one collection action is emitted for the invoice.
C13_AtMostOneActionPerDay == Len(emitted) <= 1

\* a step in which an awaited determine_collection_action returned a value
\* other than the one action held
DetermineReturned == action' # action /\ action' # Coroutine

\* C14: when the per-invoice per-day key exists, determine_collection_action
\* returns None whatever the days_overdue, the tier and the strategy.
C14_RecordedTodayReturnsNone ==
    [][(DetermineReturned /\ acted_today) => action' = None]_vars

\* the key exists and the call returned None where, without the key, the
\* urgent override would have given the immediate AI call
C14_Witness ==
    /\ acted_today
    /\ action = None
    /\ invoice.days_overdue = 25
    /\ user_tier = "pro"
    /\ strategy.urgency = "critical"
    /\ strategy.payment_probability < 30

\* the conditions of the urgent-strategy override
OverrideConditions ==
    /\ strategy.urgency \in {"high", "critical"}
    /\ strategy.payment_probability < 30
    /\ invoice.days_overdue >= 20
    /\ user_tier \in {"growth", "pro"}

\* the escalation table: threshold, action, tiers entitled to it
EscalationTable ==
    {<<7, "gentle_email", Tiers>>, <<14, "firm_email", Tiers>>,
     <<20, "second_reminder", Tiers>>, <<30, "final_notice", Tiers>>,
     <<15, "first_sms", {"growth", "pro"}>>, <<25, "first_ai_call", {"growth", "pro"}>>,
     <<40, "physical_letter", {"growth", "pro"}>>,
     <<35, "second_ai_call", {"pro"}>>, <<45, "final_ai_call", {"pro"}>>,
     <<50, "agency_referral", {"pro"}>>}

\* C15: with no key for today and the override not applying, the call
\* returns the table's action for the exact days_overdue when the tier is
\* entitled to it, and None otherwise.
C15_TableLookup ==
    [][(DetermineReturned /\ ~acted_today /\ ~OverrideConditions) =>
          /\ \A row \in EscalationTable :
                (invoice.days_overdue = row[1] /\ user_tier \in row[3]) => action' = row[2]
          /\ (~\E row \in EscalationTable :
                 invoice.days_overdue = row[1] /\ user_tier \in row[3]) => action' = None]_vars

\* day 15 on the starter tier: None, not the firm email of day 14
C15_Witness ==
    /\ ~acted_today
    /\ action = None
    /\ invoice.days_overdue = 15
    /\ user_tier = "starter"

AiCallActions == {"first_ai_call", "second_ai_call", "final_ai_call", "immediate_ai_call"}

\* C16: the call returns immediate_ai_call exactly when no key exists for
\* today, urgency is high or critical, payment_probability < 0.3,
\* days_overdue >= 20 and the tier is growth or pro; on the starter tier it
\* never returns an AI-call action.
C16_ImmediateCallIffUrgent ==
    [][DetermineReturned =>
          /\ (action' = "immediate_ai_call") <=> (~acted_today /\ OverrideConditions)
          /\ user_tier = "starter" => action' \notin AiCallActions]_vars

C16_Witness ==
    /\ action = "immediate_ai_call"
    /\ user_tier = "growth"
    /\ invoice.days_overdue = 20
    /\ strategy.urgency = "high"
    /\ strategy.payment_probability = 29

(***************************************************************************)
(* Properties of the payment predictor (SpecPredictor)                     *)
(***************************************************************************)
\* clamp(0.5 + a + b + c, 0.1, 0.9) for the invoice at hand, in hundredths
ExpectedRuleBased ==
    LET a == IF invoice.days_overdue < 15 THEN 20
             ELSE IF 15 <= invoice.days_overdue /\ invoice.days_overdue < 30 THEN 10
             ELSE IF invoice.days_overdue > 60 THEN -30
             ELSE 0
        b == IF invoice.amount < 10000 THEN 10
             ELSE IF invoice.amount > 100000 THEN -10
             ELSE 0
        c == IF invoice.dispute_status \in {None, ""} THEN 0 ELSE -20
        sum == 50 + a + b + c
    IN IF sum < 10 THEN 10 ELSE IF sum > 90 THEN 90 ELSE sum

\* C17: rule_based_prediction returns clamp(0.5 + a + b + c, 0.1, 0.9) with
\* a by the days_overdue band, b by the amount band and c = -0.2 for a
\* disputed invoice (a dispute_status that is neither None nor empty); the
\* value lies in [0.1, 0.9].
C17_RuleBasedFormula ==
    (prediction.status = "ok" /\ prediction.path \in {"no_model", "prediction_failed"}) =>
        /\ prediction.value = ExpectedRuleBased
        /\ prediction.value >= 10
        /\ prediction.value <= 90

\* 0.5 - 0.3 - 0.1 - 0.2 is below the floor: the value is 0.1
C17_Witness ==
    /\ prediction.status = "ok"
    /\ prediction.path = "no_model"
    /\ invoice.days_overdue > 60
    /\ invoice.amount > 100000
    /\ invoice.dispute_status = "open"
    /\ prediction.value = 10

\* C18: the strategy's band is low / gentle_reminder for p > 0.7, medium /
\* standard_escalation for 0.4 < p <= 0.7, high / immediate_escalation for
\* 0.2 < p <= 0.4 and critical / evaluate_writeoff for p <= 0.2; the
\* negative cost-benefit write-off signal is there exactly when the band is
\* critical and the estimated collection cost exceeds 30% of the amount.
C18_StrategyBands ==
    strategy.status = "ok" =>
        LET p == strategy.payment_probability
            band == <<strategy.urgency, strategy.recommended_action>>
            signal == strategy.cost_benefit = "negative" /\ strategy.recommendation = "write_off"
            nosignal == strategy.cost_benefit = None /\ strategy.recommendation = None
        IN /\ p > 70 => band = <<"low", "gentle_reminder">>
           /\ (40 < p /\ p <= 70) => band = <<"medium", "standard_escalation">>
           /\ (20 < p /\ p <= 40) => band = <<"high", "immediate_escalation">>
           /\ p <= 20 => band = <<"critical", "evaluate_writeoff">>
           /\ IF p <= 20 /\ estimate_collection_cost(invoice) > invoice.amount * 30
              THEN signal ELSE nosignal

\* a critical strategy with the signal, its probability on the band's edge
C18_Witness ==
    /\ strategy.status = "ok"
    /\ strategy.payment_probability = 20
    /\ strategy.urgency = "critical"
    /\ strategy.cost_benefit = "negative"

\* C19: a call of predict_payment_probability returns a probability within
\* [0, 1]; with no model loaded, and when the model's prediction raised, the
\* value is the rule-based one, and it is the value the strategy carries.
C19_FallbackToRuleBased ==
    [][prediction' # prediction =>
          /\ prediction'.status = "ok"
          /\ prediction'.value >= 0
          /\ prediction'.value <= 100
          /\ model = None => prediction'.value = ExpectedRuleBased
          /\ prediction'.path = "prediction_failed" => prediction'.value = ExpectedRuleBased
          /\ strategy'.payment_probability = prediction'.value]_vars

\* a model is loaded, its prediction raised, and the rule-based value came back
C19_Witness ==
    /\ model # None
    /\ prediction.status = "ok"
    /\ prediction.path = "prediction_failed"
    /\ prediction.value = ExpectedRuleBased
    /\ strategy.payment_probability = prediction.value

(***************************************************************************)
(* Further properties of the escalation engine (SpecEscalation)            *)
(***************************************************************************)
\* C21: in every returned recommendation each of the eight scoring factors
\* has appended at least one entry to the reasoning list.
C21_EveryFactorExplained ==
    recommendation.status = "ok" =>
        /\ \A n \in 1..8 : Factors(esc_params)[n].reasoning # <<>>
        /\ Len(recommendation.reasoning) >= 8

\* the candidates that hold the highest final score
TopCandidates == {opt \in OptionSet : \A other \in OptionSet : ScoreOf(other) <= ScoreOf(opt)}

\* the script that belongs to a primary option
ScriptOf(opt) ==
    CASE opt = "court" -> "court_steps"
      [] opt = "agency" -> "agency_steps"
      [] opt = "write_off" -> "write_off_steps"
      [] opt = "continue_internal" -> "internal_steps"

\* C30: the primary_option of a returned recommendation is the first, in
\* the order court, agency, write_off, continue_internal, of the candidates
\* that share the highest final score, and next_steps is the script of that
\* primary_option.
C30_TieGoesToFirstInOrder ==
    recommendation.status = "ok" =>
        /\ recommendation.primary_option =
              (IF "court" \in TopCandidates THEN "court"
               ELSE IF "agency" \in TopCandidates THEN "agency"
               ELSE IF "write_off" \in TopCandidates THEN "write_off"
               ELSE "continue_internal")
        /\ recommendation.next_steps = ScriptOf(recommendation.primary_option)

\* two candidates share the highest score and the earlier one is returned
C30_Witness ==
    /\ recommendation.status = "ok"
    /\ Cardinality(TopCandidates) >= 2
    /\ recommendation.primary_option = "court"
    /\ "agency" \in TopCandidates
    /\ recommendation.next_steps = "court_steps"

(***************************************************************************)
(* Further properties of the collection scheduler (SpecScheduler)          *)
(***************************************************************************)
\* the action names determine_collection_action can decide on
DecidedActionNames ==
    {"gentle_email", "firm_email", "first_sms", "second_reminder", "first_ai_call",
     "final_notice", "second_ai_call", "physical_letter", "final_ai_call",
     "agency_referral", "immediate_ai_call"}

\* C29: what the daily task enqueues for the invoice is a decided action
\* name, and for an invoice whose decision is None whatever the strategy (no
\* threshold day and no tier for the override) nothing is enqueued.
C29_EnqueuesOnlyDecidedAction ==
    /\ \A n \in 1..Len(emitted) : emitted[n] \in DecidedActionNames
    /\ (invoice.days_overdue = 29 /\ user_tier = "starter") => emitted = <<>>

(***************************************************************************)
(* Properties of the court fee (SpecCourtFee)                              *)
(***************************************************************************)
\* the fee schedule in pounds: upper end of the band, fee
FeeSchedule ==
    <<<<300, 35>>, <<500, 50>>, <<1000, 70>>, <<1500, 80>>, <<3000, 115>>,
      <<5000, 205>>, <<10000, 455>>>>

\* the schedule's fee, in hundredths of a penny, for a claim in pence
ScheduledFee(c) ==
    IF c > 10000 * 100
    THEN (IF c * 5 > 10000 * 10000 THEN 10000 * 10000 ELSE c * 5)
    ELSE LET band == CHOOSE n \in 1..Len(FeeSchedule) :
                        /\ c <= FeeSchedule[n][1] * 100
                        /\ \A m \in 1..(n - 1) : c > FeeSchedule[m][1] * 100
         IN FeeSchedule[band][2] * 10000

\* C22: the court fee is the schedule's step function, 5% of the claim
\* above 10000 and never more than 10000, and no smaller claim has a greater
\* fee.
C22_CourtFeeSchedule ==
    fee_response.status = "ok" =>
        /\ fee_response.court_fee = ScheduledFee(claim)
        /\ fee_response.court_fee <= 10000 * 10000
        /\ \A smaller \in ClaimAmounts :
              smaller <= claim => ScheduledFee(smaller) <= fee_response.court_fee

\* a claim above 200000, where 5% would exceed the cap
C22_Witness ==
    /\ fee_response.status = "ok"
    /\ claim > 200000 * 100
    /\ fee_response.court_fee = 10000 * 10000

(***************************************************************************)
(* Properties of the interest projection (SpecProjection)                  *)
(***************************************************************************)
\* the parameters of calculate_late_payment_interest for the projected
\* invoice evaluated d days after its due date
ParamsAtDay(d) ==
    [principal_amount |-> projection_args.principal_amount,
     due_date |-> projection_args.due_date,
     current_date |-> Some(AddDays(projection_args.due_date, d)),
     custom_base_rate |-> Absent, use_historical_rate |-> TRUE]

\* C23: the projection holds projection_days + 1 snapshots, the one for day
\* d dated due_date + d, and its interest_accrued and total_owed are those
\* calculate_late_payment_interest returns for the same principal and due
\* date at current_date = due_date + d.
C23_ProjectionMatchesCalculation ==
    projections # Absent =>
        LET list == projections[1]
        IN /\ Len(list) = projection_args.projection_days + 1
           /\ \A k \in 1..Len(list) :
                 /\ list[k].day = k - 1
                 /\ list[k].date = AddDays(projection_args.due_date, k - 1)
                 /\ \E r \in InterestOutcomes(ParamsAtDay(k - 1), projection_args.due_date) :
                       /\ r.status = "ok"
                       /\ r.interest_accrued = list[k].interest_accrued
                       /\ r.total_owed = list[k].total_owed

(***************************************************************************)
(* Properties of the base-rate update check (SpecUpdateCheck)              *)
(***************************************************************************)
\* the 1 January and 1 July boundaries near the dates explored
RateBoundaries == {Date(y, m, 1) : y \in 2025..(MaxCheckYear + 1), m \in {1, 7}}

\* check_date lies within 7 days before or after the boundary
WithinSevenDays(boundary) ==
    LET gap == ToOrdinal(boundary) - ToOrdinal(check_date)
    IN -7 <= gap /\ gap <= 7

\* C24: update_due is true exactly on the dates within 7 days before or
\* after a 1 January or 1 July for which the table has no entry.
C24_UpdateDueAroundBoundary ==
    update_info.status = "ok" =>
        (update_info.update_due <=>
            \E b \in RateBoundaries :
                /\ WithinSevenDays(b)
                /\ \A n \in 1..Len(BASE_RATE_HISTORY_LITERAL) :
                      BASE_RATE_HISTORY_LITERAL[n].effective_from # b)


(***************************************************************************)
(* Properties of the webhook idempotency handler (SpecIdempotency)         *)
(***************************************************************************)

\* C25: while the key is stored, the wrapped handler is executed at most
\* once, however the concurrent calls with that key interleave.
C25_HandlerRunsAtMostOnce == handler_runs <= 1

\* the call of caller c leaves line 20 in this step
Answered(c) == idem_pc[c] = "idle" /\ idem_pc'[c] # "idle"

\* C26: a call that finds completed returns the cached result, a call that
\* finds processing or failed raises, and neither runs the handler or
\* changes the record; a handler that raised leaves failed stored and its
\* exception goes to the caller; a handler that returned leaves completed
\* with its result stored and the result goes to the caller.
C26_Protocol ==
    [][\A c \in Callers :
          /\ (Answered(c) /\ idem_store.status = "completed") =>
                 /\ idem_pc'[c] = "done"
                 /\ idem_outcome'[c].kind = "returned"
                 /\ idem_outcome'[c].value = idem_store.result
                 /\ handler_runs' = handler_runs
                 /\ idem_store' = idem_store
          /\ (Answered(c) /\ idem_store.status \in {"processing", "failed"}) =>
                 /\ idem_pc'[c] = "done"
                 /\ idem_outcome'[c].kind = "raised"
                 /\ idem_outcome'[c].value = "ValueError"
                 /\ handler_runs' = handler_runs
                 /\ idem_store' = idem_store
          /\ (handler_runs' # handler_runs /\ idem_pc'[c] # idem_pc[c]) =>
                 /\ idem_pc[c] = "handler"
                 /\ idem_outcome'[c].kind = "raised" <=>
                        idem_pc'[c] = "store_failed"
                 /\ idem_outcome'[c].kind = "returned" <=>
                        idem_pc'[c] = "store_completed"
          /\ (idem_pc[c] = "store_failed" /\ idem_pc'[c] # idem_pc[c]) =>
                 /\ idem_store'.status = "failed"
                 /\ idem_pc'[c] = "done"
                 /\ idem_outcome'[c] = idem_outcome[c]
                 /\ idem_outcome[c].kind = "raised"
                 /\ idem_outcome[c].value = "Exception"
          /\ (idem_pc[c] = "store_completed" /\ idem_pc'[c] # idem_pc[c]) =>
                 /\ idem_store'.status = "completed"
                 /\ idem_store'.result = idem_outcome[c].value
                 /\ idem_pc'[c] = "done"
                 /\ idem_outcome'[c] = idem_outcome[c]
                 /\ idem_outcome[c].kind = "returned"]_vars

\* one call's handler raised and failed is stored, and another call found
\* the record and was turned away
C26_Witness ==
    /\ idem_store.status = "failed"
    /\ \E c \in Callers :
           idem_pc[c] = "done" /\ idem_outcome[c] = CallRaised("Exception")
    /\ \E c \in Callers :
           idem_pc[c] = "done" /\ idem_outcome[c] = CallRaised("ValueError")

(***************************************************************************)
(* Properties of the AI call cooldown (SpecCalls)                          *)
(***************************************************************************)

\* the invoice has a saved call whose 24 hours have not passed
CoolingDown ==
    \E i \in DOMAIN invoice_call_history :
        /\ \A j \in DOMAIN invoice_call_history :
               invoice_call_history[j] <= invoice_call_history[i]
        /\ call_now < invoice_call_history[i] + 24

\* C27: any two calls made for the invoice are at least 24 hours apart, and
\* a request of at least the minimum amount that arrives while the latest
\* saved call is less than 24 hours old is rejected with 429 and makes no
\* call, in whatever order the requests are handled.
C27_CooldownBetweenCalls ==
    [][/\ \A i, j \in DOMAIN calls_placed' :
              i < j => calls_placed'[j] - calls_placed'[i] >= 24
       /\ \A r \in CallRequests :
              (/\ call_pc[r] = "idle"
               /\ call_pc'[r] = "done"
               /\ CoolingDown
               /\ call_response'[r] # "400") =>
                  /\ call_response'[r] = "429"
                  /\ calls_placed' = calls_placed
                  /\ invoice_call_history' = invoice_call_history]_vars

\* a request was rejected during the cooldown of the first call, and a
\* second call was made once the cooldown was over
C27_Witness ==
    /\ Len(calls_placed) = 2
    /\ calls_placed[2] - calls_placed[1] >= 24
    /\ \E r \in CallRequests : call_response[r] = "429"

(***************************************************************************)
(* Properties of the rate limiter (SpecLimiter)                            *)
(***************************************************************************)

\* C28: when every consume_limit follows a check_limit that returned
\* allowed, the stored usage counter of no window exceeds the window's
\* limit, however the concurrent requests of the user interleave.
C28_UsageWithinLimit ==
    /\ usage["hourly"] <= 2
    /\ usage["daily"] <= 5
    /\ usage["monthly"] <= 50
====
